---- MODULE Spec2Model ----
(***************************************************************************)
(* Multi-tenant authorization layer: the tenant store and key lifecycle    *)
(* (tenant.py), tenant resolution and the request-scoped tenant slot       *)
(* (tenant_middleware.py), the request-scoped user slot (auth.py) and the  *)
(* middleware stack and route handlers that use them (app.py).             *)
(*                                                                         *)
(* Time is counted in days.  uuid4() is modelled as a fresh number: the    *)
(* n-th tenant id is n and the n-th key is n.  The number 0 stands for     *)
(* Python's None where the value is a key, a tenant or a tenant id, the    *)
(* string NoUser where it is a user, and the empty sequence for an absent  *)
(* (or empty) header string: the code tests all of these by truthiness.    *)
(***************************************************************************)
EXTENDS Integers, Sequences, FiniteSets, TLC

VARIABLES
    tenants,             \* TenantStore.tenants: tenant id -> Tenant
    auth_key_to_tenant,  \* TenantStore.auth_key_to_tenant: key -> tenant id
    now,                 \* datetime.utcnow(), in days
    ticks,               \* how often the clock has been advanced
    current_tenant,      \* tenant_middleware._current_tenant (a tenant id, 0 = None)
    current_user,        \* auth._current_user (an email, NoUser = None)
    req,                 \* the requests: request slot -> its position and locals
    tenants_data,        \* app.tenants_data: tenant id -> users and activities
    call,                \* the last call of an authorization function: its
                         \* arguments and its outcome
    user_roles           \* User.roles of one user: the list of its Role objects

vars == <<tenants, auth_key_to_tenant, now, ticks, current_tenant, current_user, req,
          tenants_data, call, user_roles>>


----------------------------------------------------------------------------
(* Bounds *)

MaxTenants == 3
MaxKeys == 3
MaxTicks == 1
MaxReqs == 2
MaxStrategies == 2

(* Program constants *)

DefaultExpirationDays == 365

HTTP_401_UNAUTHORIZED == 401
HTTP_403_FORBIDDEN == 403
HTTP_200_OK == 200
HTTP_500_INTERNAL_SERVER_ERROR == 500
HTTP_400_BAD_REQUEST == 400
HTTP_404_NOT_FOUND == 404

NoUser == "None"

----------------------------------------------------------------------------
(* tenant.py: TenantAuthKey *)

TenantAuthKey_create(k, t, expiration_days) ==
    [key |-> k, created_at |-> t, expires_at |-> t + expiration_days, active |-> TRUE]

\* a validity test that admits the instant of expiry: the property C17 does
\* not hold of it
is_valid_inclusive(auth_key, t) == auth_key.active /\ t <= auth_key.expires_at

is_valid(auth_key, t) == auth_key.active /\ t < auth_key.expires_at

revoke(auth_key) == [auth_key EXCEPT !.active = FALSE]

----------------------------------------------------------------------------
(* tenant.py: Tenant *)

\* a metadata dict is the sequence of its "key=value" items; None is NoMetadata
NoMetadata == <<"None">>

\* metadata or {}: None and the empty dict are falsy and give the empty dict
MetadataOrEmpty(metadata) ==
    IF metadata = NoMetadata \/ metadata = <<>> THEN <<>> ELSE metadata

\* Tenant.create, with __post_init__ minting the first key because auth_keys is empty
Tenant_create(id, k, t, name, domain, metadata) ==
    [id |-> id, name |-> name, domain |-> domain, created_at |-> t,
     auth_keys |-> <<TenantAuthKey_create(k, t, DefaultExpirationDays)>>,
     active |-> TRUE, metadata |-> MetadataOrEmpty(metadata)]

\* the positions of the valid keys, in list order
ValidIndexes(tenant, t) ==
    {i \in 1..Len(tenant.auth_keys) : is_valid(tenant.auth_keys[i], t)}

Min(S) == CHOOSE x \in S : \A y \in S : x <= y

\* the first valid key in list order (its key string), 0 when there is none
get_valid_auth_key(tenant, t) ==
    IF ValidIndexes(tenant, t) = {} THEN 0
    ELSE tenant.auth_keys[Min(ValidIndexes(tenant, t))].key

\* a rotation that revokes the keys the tenant already holds: the property C13
\* does not hold of it
generate_new_auth_key_replacing(tenant, k, t, expiration_days) ==
    [tenant EXCEPT !.auth_keys =
        Append([i \in 1..Len(@) |-> revoke(@[i])],
               TenantAuthKey_create(k, t, expiration_days))]

generate_new_auth_key(tenant, k, t, expiration_days) ==
    [tenant EXCEPT !.auth_keys = Append(@, TenantAuthKey_create(k, t, expiration_days))]

KeyIndexes(tenant, key) ==
    {i \in 1..Len(tenant.auth_keys) : tenant.auth_keys[i].key = key}

\* a revocation that takes the key out of the list: the property C25 does not
\* hold of it
revoke_auth_key_removing(tenant, key) ==
    IF KeyIndexes(tenant, key) = {} THEN tenant
    ELSE LET i == Min(KeyIndexes(tenant, key))
         IN  [tenant EXCEPT !.auth_keys =
                 SubSeq(@, 1, i - 1) \o SubSeq(@, i + 1, Len(@))]

\* revokes the first key of the list with this key string
revoke_auth_key(tenant, key) ==
    IF KeyIndexes(tenant, key) = {} THEN tenant
    ELSE [tenant EXCEPT !.auth_keys[Min(KeyIndexes(tenant, key))] = revoke(@)]

revoke_auth_key_result(tenant, key) == KeyIndexes(tenant, key) # {}

\* a deactivation that clears the flag and leaves the keys: the property C12
\* does not hold of it
deactivate_flag_only(tenant) == [tenant EXCEPT !.active = FALSE]

deactivate(tenant) ==
    [tenant EXCEPT !.active = FALSE,
                   !.auth_keys = [i \in 1..Len(@) |-> revoke(@[i])]]

\* a reactivation that sets the keys of the tenant active again: the property
\* C18 does not hold of it
reactivate_keys_restored(tenant, k, t) ==
    IF ~tenant.active
    THEN [tenant EXCEPT !.active = TRUE,
                        !.auth_keys = [i \in 1..Len(@) |-> [@[i] EXCEPT !.active = TRUE]]]
    ELSE tenant

\* k is the key uuid4() would yield if a key has to be minted
reactivate(tenant, k, t) ==
    IF ~tenant.active
    THEN LET on == [tenant EXCEPT !.active = TRUE]
         IN  IF get_valid_auth_key(on, t) = 0
             THEN generate_new_auth_key(on, k, t, DefaultExpirationDays)
             ELSE on
    ELSE tenant

\* TenantContext.is_valid
TenantContext_is_valid(ts, tenant_id) == ts[tenant_id].active

----------------------------------------------------------------------------
(* tenant.py: TenantStore.  ts is the tenants dict, idx the key index. *)

EmptyStore == [tenants |-> <<>>, auth_key_to_tenant |-> <<>>]

\* dict assignment d[k] = v
DictSet(d, k, v) == [x \in DOMAIN d \cup {k} |-> IF x = k THEN v ELSE d[x]]

\* every key string held by some tenant
AllKeys(ts) ==
    UNION {{ts[i].auth_keys[j].key : j \in 1..Len(ts[i].auth_keys)} : i \in DOMAIN ts}

\* str(uuid.uuid4()): a value never drawn before
uuid4_key(ts) == Cardinality(AllKeys(ts)) + 1
uuid4_tenant(ts) == Cardinality(DOMAIN ts) + 1

\* the index after "for key in keys: auth_key_to_tenant[key.key] = tenant_id"
IndexKeys(idx, keys, tenant_id) ==
    [x \in DOMAIN idx \cup keys |-> IF x \in keys THEN tenant_id ELSE idx[x]]

\* a creation that does not enter the key of the new tenant into the index: the
\* property C24 does not hold of it
create_tenant_unindexed(store, t, name, domain, metadata) ==
    LET id == uuid4_tenant(store.tenants)
        tenant == Tenant_create(id, uuid4_key(store.tenants), t, name, domain, metadata)
    IN  [tenants |-> DictSet(store.tenants, id, tenant),
         auth_key_to_tenant |-> store.auth_key_to_tenant]

create_tenant(store, t, name, domain, metadata) ==
    LET id == uuid4_tenant(store.tenants)
        tenant == Tenant_create(id, uuid4_key(store.tenants), t, name, domain, metadata)
    IN  [tenants |-> DictSet(store.tenants, id, tenant),
         auth_key_to_tenant |->
            IndexKeys(store.auth_key_to_tenant,
                      {tenant.auth_keys[j].key : j \in 1..Len(tenant.auth_keys)}, id)]

\* dict.get: 0 (None) for an unknown id
get_tenant(ts, tenant_id) == IF tenant_id \in DOMAIN ts THEN tenant_id ELSE 0

\* a lookup that trusts the index and does not look at the tenant's keys: the
\* revocation property C8 does not hold of it
get_tenant_by_auth_key_index_only(ts, idx, t, auth_key) ==
    IF auth_key \in DOMAIN idx /\ idx[auth_key] \in DOMAIN ts THEN idx[auth_key] ELSE 0

\* a lookup that asks for some valid key of the indexed tenant and does not
\* compare it with the key looked up: the property C29 does not hold of it
get_tenant_by_auth_key_any_valid(ts, idx, t, auth_key) ==
    LET tenant_id == IF auth_key \in DOMAIN idx THEN idx[auth_key] ELSE 0
    IN  IF tenant_id # 0
           /\ get_tenant(ts, tenant_id) # 0
           /\ get_valid_auth_key(ts[tenant_id], t) # 0
        THEN tenant_id
        ELSE 0

get_tenant_by_auth_key(ts, idx, t, auth_key) ==
    LET tenant_id == IF auth_key \in DOMAIN idx THEN idx[auth_key] ELSE 0
    IN  IF tenant_id # 0
           /\ get_tenant(ts, tenant_id) # 0
           /\ get_valid_auth_key(ts[tenant_id], t) # 0
           /\ get_valid_auth_key(ts[tenant_id], t) = auth_key
        THEN tenant_id
        ELSE 0

\* the dict is scanned in insertion order, which is the order of the ids
get_tenant_by_domain(ts, domain) ==
    LET hits == {i \in DOMAIN ts : ts[i].domain = domain /\ ts[i].active}
    IN  IF hits = {} THEN 0 ELSE Min(hits)

list_tenants(ts) == {i \in DOMAIN ts : ts[i].active}

\* a store deactivation that clears the flag of the tenant and leaves its keys:
\* the property C28 does not hold of it
deactivate_tenant_flag_only(ts, tenant_id) ==
    IF get_tenant(ts, tenant_id) # 0
    THEN [ts EXCEPT ![tenant_id].active = FALSE]
    ELSE ts

\* a store deactivation that deactivates every tenant of the store: the
\* property C30 does not hold of it
deactivate_tenant_every(ts, tenant_id) ==
    IF get_tenant(ts, tenant_id) # 0
    THEN [i \in DOMAIN ts |-> deactivate(ts[i])]
    ELSE ts

deactivate_tenant(ts, tenant_id) ==
    IF get_tenant(ts, tenant_id) # 0
    THEN [ts EXCEPT ![tenant_id] = deactivate(@)]
    ELSE ts

\* the value deactivate_tenant returns: True when the tenant was found
deactivate_tenant_result(ts, tenant_id) == get_tenant(ts, tenant_id) # 0

\* the value reactivate_tenant returns: True when the tenant was found
reactivate_tenant_result(ts, tenant_id) == get_tenant(ts, tenant_id) # 0

\* the store after reactivate_tenant: the tenant reactivated, its valid keys indexed
reactivate_tenant(store, t, tenant_id) ==
    IF get_tenant(store.tenants, tenant_id) # 0
    THEN LET tenant == reactivate(store.tenants[tenant_id], uuid4_key(store.tenants), t)
         IN  [tenants |-> [store.tenants EXCEPT ![tenant_id] = tenant],
              auth_key_to_tenant |->
                 IndexKeys(store.auth_key_to_tenant,
                           {tenant.auth_keys[j].key : j \in ValidIndexes(tenant, t)},
                           tenant_id)]
    ELSE store

----------------------------------------------------------------------------
(* app.py: the state after the module is loaded *)

mergington_domain == <<"mergington.local">>
riverside_domain == <<"riverside.local">>

\* tenant_store after the two create_tenant calls of app.py
InitialStore ==
    create_tenant(
        create_tenant(EmptyStore, 0, "Mergington High School", mergington_domain,
                      <<"country=USA", "state=California">>),
        0, "Riverside Academy", riverside_domain, <<"country=USA", "state=Texas">>)

----------------------------------------------------------------------------
(* app.py: the users of tenants_data, and models.py *)

teacher_mergington == "teacher@mergington.edu"
teacher_riverside == "teacher@riverside.edu"

\* users built beside those of tenants_data, to call the strategies with
student_user == "student@mergington.edu"
admin_user == "admin@mergington.edu"
guest_user == "guest@mergington.edu"

\* User.roles, as the list of the roles' names: both users of tenants_data hold
\* teacher_role; the guest holds no role
UserRoles(user) ==
    IF user = guest_user THEN <<>>
    ELSE IF user = student_user THEN <<"student">>
    ELSE IF user = admin_user THEN <<"admin", "teacher">>
    ELSE <<"teacher">>

\* User.owner_of: the resource ids the user owns
UserOwnerOf(user) == IF user = student_user THEN {"activity1"} ELSE {}

\* User.has_role
has_role(user, role_name) ==
    \E i \in 1..Len(UserRoles(user)) : UserRoles(user)[i] = role_name

\* User.owns_resource
owns_resource(user, resource_id) == resource_id \in UserOwnerOf(user)

\* an authorization that demands every listed role: the property C19 does not
\* hold of it
RoleAuthorization_authorize_all(required_roles, user) ==
    IF user = NoUser THEN FALSE
    ELSE \A i \in 1..Len(required_roles) : has_role(user, required_roles[i])

\* RoleAuthorization(required_roles).authorize(user)
RoleAuthorization_authorize(required_roles, user) ==
    IF user = NoUser THEN FALSE
    ELSE \E i \in 1..Len(required_roles) : has_role(user, required_roles[i])

\* a keyword argument that is not passed
Absent == "absent"

\* Python's None and the empty string as a resource id: both are falsy
NoResource == "None"
EmptyResource == ""

\* OwnershipAuthorization().authorize(user, resource_id=None)
OwnershipAuthorization_authorize(user, resource_id) ==
    IF user = NoUser \/ resource_id \in {NoResource, EmptyResource} THEN FALSE
    ELSE owns_resource(user, resource_id)

\* LimitedAccessAuthorization(allowed_roles).authorize(user)
LimitedAccessAuthorization_authorize(allowed_roles, user) ==
    IF user = NoUser THEN FALSE
    ELSE \E i \in 1..Len(allowed_roles) : has_role(user, allowed_roles[i])

\* an exclusion that turns a missing user away: the property C20 does not hold
\* of it
AuthorizationExclusion_authorize_closed(excluded_roles, user) ==
    IF user = NoUser THEN FALSE
    ELSE ~(\E i \in 1..Len(excluded_roles) : has_role(user, excluded_roles[i]))

\* AuthorizationExclusion(excluded_roles).authorize(user)
AuthorizationExclusion_authorize(excluded_roles, user) ==
    IF user = NoUser THEN TRUE
    ELSE ~(\E i \in 1..Len(excluded_roles) : has_role(user, excluded_roles[i]))

\* the strategy objects: the class and the role names given to __init__
RoleAuthorization(required_roles) == [kind |-> "role", roles |-> required_roles]
OwnershipAuthorization == [kind |-> "ownership", roles |-> <<>>]
LimitedAccessAuthorization(allowed_roles) == [kind |-> "limited", roles |-> allowed_roles]
AuthorizationExclusion(excluded_roles) == [kind |-> "exclusion", roles |-> excluded_roles]

\* the keyword arguments of a call: what is passed under the names user and
\* resource_id, Absent for a name that is not passed
NoKwargs == [user |-> Absent, resource_id |-> Absent]

\* authorization.authorize(user, **kwargs).  The first parameter of every
\* authorize is named user, so a keyword argument of that name binds it twice
\* and Python raises TypeError instead of running the body.
authorize(authorization, user, kwargs) ==
    [raised |-> kwargs.user # Absent,
     value  |->
        IF authorization.kind = "role"
        THEN RoleAuthorization_authorize(authorization.roles, user)
        ELSE IF authorization.kind = "ownership"
        THEN OwnershipAuthorization_authorize(
                 user,
                 IF kwargs.resource_id = Absent THEN NoResource ELSE kwargs.resource_id)
        ELSE IF authorization.kind = "limited"
        THEN LimitedAccessAuthorization_authorize(authorization.roles, user)
        ELSE AuthorizationExclusion_authorize(authorization.roles, user)]

\* the positions of the roles of the list that equal role: Role is a dataclass,
\* so two Role objects are equal when all their fields are
EqualRoleIndexes(roles, role) == {i \in 1..Len(roles) : roles[i] = role}

\* User.add_role: the role is appended unless an equal one is in the list
add_role(roles, role) ==
    IF EqualRoleIndexes(roles, role) = {} THEN Append(roles, role) ELSE roles

\* User.remove_role: list.remove takes the first equal role out
remove_role(roles, role) ==
    IF EqualRoleIndexes(roles, role) # {}
    THEN LET i == Min(EqualRoleIndexes(roles, role))
         IN  SubSeq(roles, 1, i - 1) \o SubSeq(roles, i + 1, Len(roles))
    ELSE roles

\* AuthorizationContext.add_authorization: the strategy is appended
add_authorization(authorizations, authorization) == Append(authorizations, authorization)

\* all(auth.authorize(user, **kwargs) for auth in authorizations), from the i-th
\* strategy on: evaluation stops at the first strategy that does not authorize
RECURSIVE all_authorize(_, _, _, _)
all_authorize(authorizations, i, user, kwargs) ==
    IF i > Len(authorizations) THEN TRUE
    ELSE IF ~authorize(authorizations[i], user, kwargs).value THEN FALSE
    ELSE all_authorize(authorizations, i + 1, user, kwargs)

\* any(auth.authorize(user, **kwargs) for auth in authorizations), from the i-th
\* strategy on: evaluation stops at the first strategy that authorizes
RECURSIVE any_authorize(_, _, _, _)
any_authorize(authorizations, i, user, kwargs) ==
    IF i > Len(authorizations) THEN FALSE
    ELSE IF authorize(authorizations[i], user, kwargs).value THEN TRUE
    ELSE any_authorize(authorizations, i + 1, user, kwargs)

\* AuthorizationContext.check(user, **kwargs).  Its first parameter is named
\* user as well: a keyword argument of that name raises TypeError at the call.
AuthorizationContext_check(authorizations, user, kwargs) ==
    [raised |-> kwargs.user # Absent,
     value  |-> all_authorize(authorizations, 1, user, kwargs)]

\* AuthorizationContext.check_any(user, **kwargs)
AuthorizationContext_check_any(authorizations, user, kwargs) ==
    [raised |-> kwargs.user # Absent,
     value  |-> IF authorizations = <<>> THEN TRUE
                ELSE any_authorize(authorizations, 1, user, kwargs)]

\* tenants_data as app.py builds it: keyed by the ids of the two sample tenants
InitialTenantsData ==
    (1 :> [users |-> {teacher_mergington},
           activities |->
              ("Chess Club" :> [tenant_id |-> 1, max_participants |-> 12,
                                participants |-> <<"michael@mergington.edu">>]
               @@ "Programming Class" :> [tenant_id |-> 1, max_participants |-> 20,
                                participants |-> <<"emma@mergington.edu">>])])
    @@
    (2 :> [users |-> {teacher_riverside},
           activities |->
              ("Soccer Team" :> [tenant_id |-> 2, max_participants |-> 22,
                                 participants |-> <<"liam@riverside.edu">>]
               @@ "Art Club" :> [tenant_id |-> 2, max_participants |-> 15,
                                 participants |-> <<"sarah@riverside.edu">>])])

\* get_current_user_from_request: the user is looked up under the tenant of the
\* current-tenant slot as it is when AuthorizationMiddleware.dispatch runs
get_current_user_from_request(tenant_context, td, user_email) ==
    IF tenant_context = 0 THEN NoUser
    ELSE IF user_email # "" /\ tenant_context \in DOMAIN td
            /\ user_email \in td[tenant_context].users
         THEN user_email
         ELSE NoUser

\* Starlette's add_middleware puts the class at the front of user_middleware, and
\* a request passes through user_middleware from its first entry inwards
add_middleware(stack, cls) == <<cls>> \o stack

\* app.py: TenantMiddleware is added first, AuthorizationMiddleware second
user_middleware ==
    add_middleware(add_middleware(<<>>, "TenantMiddleware"), "AuthorizationMiddleware")

----------------------------------------------------------------------------
(* auth.py *)

\* check_authorization(authorization, **kwargs): user = get_current_user(), then
\* authorization.authorize(user, **kwargs); user is the current-user slot
check_authorization(authorization, kwargs, user) == authorize(authorization, user, kwargs)

\* the AuthorizationContext after "for auth in authorizations:
\* context.add_authorization(auth)"
RECURSIVE AddAll(_, _)
AddAll(context, authorizations) ==
    IF authorizations = <<>> THEN context
    ELSE AddAll(add_authorization(context, Head(authorizations)), Tail(authorizations))

\* check_authorizations(authorizations, require_all, **kwargs); user is the
\* current-user slot
check_authorizations(authorizations, require_all, kwargs, user) ==
    IF require_all
    THEN AuthorizationContext_check(AddAll(<<>>, authorizations), user, kwargs)
    ELSE AuthorizationContext_check_any(AddAll(<<>>, authorizations), user, kwargs)

----------------------------------------------------------------------------
(* tenant_middleware.py *)

ColonIndexes(host) == {i \in 1..Len(host) : host[i] = ":"}

\* host.split(":")[0]: a header string is the sequence of its parts, ":" being a part
SplitPort(host) ==
    IF ColonIndexes(host) = {} THEN host
    ELSE SubSeq(host, 1, Min(ColonIndexes(host)) - 1)

\* headers.get("Host") or headers.get("X-Tenant-Domain")
HostOrDomain(headers) ==
    IF headers.Host # <<>> THEN headers.Host ELSE headers.X_Tenant_Domain

\* a resolution that consults the domain rule before the key rule: the priority
\* property C5 does not hold of it
_extract_tenant_domain_first(ts, idx, t, headers) ==
    LET by_key == get_tenant_by_auth_key(ts, idx, t, headers.X_Tenant_Key)
        by_domain == get_tenant_by_domain(ts, SplitPort(HostOrDomain(headers)))
        by_id == get_tenant(ts, headers.X_Tenant_ID)
    IN  IF HostOrDomain(headers) # <<>> /\ by_domain # 0 THEN by_domain
        ELSE IF headers.X_Tenant_Key # 0 /\ by_key # 0 THEN by_key
        ELSE IF headers.X_Tenant_ID # 0 /\ by_id # 0 THEN by_id
        ELSE 0

\* TenantMiddleware._extract_tenant: the tenant's id, 0 for None
_extract_tenant(ts, idx, t, headers) ==
    LET by_key == get_tenant_by_auth_key(ts, idx, t, headers.X_Tenant_Key)
        by_domain == get_tenant_by_domain(ts, SplitPort(HostOrDomain(headers)))
        by_id == get_tenant(ts, headers.X_Tenant_ID)
    IN  IF headers.X_Tenant_Key # 0 /\ by_key # 0 THEN by_key
        ELSE IF HostOrDomain(headers) # <<>> /\ by_domain # 0 THEN by_domain
        ELSE IF headers.X_Tenant_ID # 0 /\ by_id # 0 THEN by_id
        ELSE 0

\* a dispatch that answers a missing tenant as it answers an inactive one: the
\* rejection property C6 does not hold of it
TenantMiddleware_reject_all_forbidden(ts, tenant) ==
    IF tenant = 0 THEN HTTP_403_FORBIDDEN
    ELSE IF ~ts[tenant].active THEN HTTP_403_FORBIDDEN
    ELSE 0

\* a dispatch without the test of tenant.active: the property C7 does not hold
\* of it
TenantMiddleware_reject_missing_only(ts, tenant) ==
    IF tenant = 0 THEN HTTP_401_UNAUTHORIZED ELSE 0

\* The status of the HTTPException TenantMiddleware.dispatch raises for the tenant
\* _extract_tenant returned, 0 when it raises none
TenantMiddleware_reject(ts, tenant) ==
    IF tenant = 0 THEN HTTP_401_UNAUTHORIZED
    ELSE IF ~ts[tenant].active THEN HTTP_403_FORBIDDEN
    ELSE 0

\* ensure_tenant_isolation(data_item, tenant_id)
ensure_tenant_isolation(data_item, tenant_id) == data_item.tenant_id = tenant_id

----------------------------------------------------------------------------
(* The inputs the operations are called with *)

DomainNames == {mergington_domain, <<"a.local">>}
MetadataValues == {NoMetadata, <<"country=USA">>}
ExpirationDays == {0, DefaultExpirationDays}
TenantIds == 1..MaxTenants
KeyStrings == 1..MaxKeys
Reqs == 1..MaxReqs

NoHeaders == [X_Tenant_Key |-> 0, Host |-> <<>>, X_Tenant_Domain |-> <<>>, X_Tenant_ID |-> 0]

\* the tenant headers a request may carry
TenantHeaders ==
    [X_Tenant_Key : {0, 1},
     Host : {<<>>, mergington_domain, <<"riverside.local", ":", "8000">>,
             <<"unknown.local">>},
     X_Tenant_Domain : {<<>>, riverside_domain},
     X_Tenant_ID : {0, 1}]

UserEmails == {"", teacher_mergington, teacher_riverside}

Routes == {"get_activities", "get_user_roles", "signup_for_activity",
           "generate_new_tenant_auth_key"}

ActivityNames == {"Chess Club", "Soccer Team"}
SignupEmails == {"emma@mergington.edu"}

IdleRequest ==
    [pc |-> "idle", depth |-> 0, headers |-> NoHeaders, email |-> "", route |-> "",
     status |-> 0, tenant |-> 0, user_set |-> NoUser, step |-> 0,
     tenant_context |-> 0, user |-> NoUser, data_of |-> 0]

----------------------------------------------------------------------------
(* Operations on the store and on its tenants *)

CreateTenant(domain, metadata) ==
    /\ Cardinality(DOMAIN tenants) < MaxTenants
    /\ Cardinality(AllKeys(tenants)) < MaxKeys
    /\ LET store == create_tenant([tenants |-> tenants,
                                   auth_key_to_tenant |-> auth_key_to_tenant],
                                  now, "School", domain, metadata)
       IN  /\ tenants' = store.tenants
           /\ auth_key_to_tenant' = store.auth_key_to_tenant
    /\ UNCHANGED <<now, ticks, current_tenant, current_user, req, tenants_data>>
    /\ UNCHANGED <<call, user_roles>>

\* Tenant.generate_new_auth_key called on a tenant of the store
GenerateNewAuthKey(tenant_id, expiration_days) ==
    /\ tenant_id \in DOMAIN tenants
    /\ Cardinality(AllKeys(tenants)) < MaxKeys
    /\ tenants' = [tenants EXCEPT ![tenant_id] =
                      generate_new_auth_key(@, uuid4_key(tenants), now, expiration_days)]
    /\ UNCHANGED <<auth_key_to_tenant, now, ticks, current_tenant, current_user, req, tenants_data>>
    /\ UNCHANGED <<call, user_roles>>

\* Tenant.revoke_auth_key called on a tenant of the store
RevokeAuthKey(tenant_id, key) ==
    /\ tenant_id \in DOMAIN tenants
    /\ tenants' = [tenants EXCEPT ![tenant_id] = revoke_auth_key(@, key)]
    /\ UNCHANGED <<auth_key_to_tenant, now, ticks, current_tenant, current_user, req, tenants_data>>
    /\ UNCHANGED <<call, user_roles>>

DeactivateTenant(tenant_id) ==
    /\ tenants' = deactivate_tenant(tenants, tenant_id)
    /\ UNCHANGED <<auth_key_to_tenant, now, ticks, current_tenant, current_user, req, tenants_data>>
    /\ UNCHANGED <<call, user_roles>>

ReactivateTenant(tenant_id) ==
    /\ tenant_id \in DOMAIN tenants => 
          (tenants[tenant_id].active \/ Cardinality(AllKeys(tenants)) < MaxKeys)
    /\ LET store == reactivate_tenant([tenants |-> tenants,
                                       auth_key_to_tenant |-> auth_key_to_tenant],
                                      now, tenant_id)
       IN  /\ tenants' = store.tenants
           /\ auth_key_to_tenant' = store.auth_key_to_tenant
    /\ UNCHANGED <<now, ticks, current_tenant, current_user, req, tenants_data>>
    /\ UNCHANGED <<call, user_roles>>

\* the instants at which some key expires
ExpiryInstants ==
    UNION {{tenants[i].auth_keys[j].expires_at : j \in 1..Len(tenants[i].auth_keys)}
           : i \in DOMAIN tenants}

\* Time passes: to the next day, or to the instant at which some key expires
Tick ==
    /\ ticks < MaxTicks
    /\ \E t \in {now + 1} \cup ExpiryInstants :
          /\ t > now
          /\ now' = t
    /\ ticks' = ticks + 1
    /\ UNCHANGED <<tenants, auth_key_to_tenant, current_tenant, current_user, req, tenants_data>>
    /\ UNCHANGED <<call, user_roles>>

----------------------------------------------------------------------------
(* A request: it passes through user_middleware from the front, reaches its
   route handler, and leaves through the finally clauses in reverse order.
   req[r].depth counts the dispatch calls whose try block the request is in. *)

\* what follows the dispatch at position d of user_middleware: the next
\* middleware, or the route handler
Inward(d) == IF d = Len(user_middleware) THEN "handler" ELSE "dispatch"

\* where a response or an exception goes from inside d try blocks
Outward(d) == IF d = 0 THEN "done" ELSE "finally"

\* the request once the response has left the outermost middleware: nothing but
\* the response is left of it
Done(code) == [IdleRequest EXCEPT !.pc = "done", !.status = code]

\* the handler, or an exception raised on the way in, ends with this status: the
\* locals of the frames left behind are gone, the middlewares' locals stay
Respond(rq, code) ==
    IF Outward(rq.depth) = "done" THEN Done(code)
    ELSE [rq EXCEPT !.status = code, !.pc = "finally", !.headers = NoHeaders,
                    !.route = "", !.tenant_context = 0, !.user = NoUser]

\* TenantMiddleware.dispatch raises before its try block: the exception passes
\* through the middlewares the request is already in
Reject(rq, code) ==
    IF Outward(rq.depth) = "done" THEN Done(code)
    ELSE [rq EXCEPT !.status = code, !.pc = "finally"]

\* a finally clause has run: the request is one try block further out
Leave(rq) ==
    IF Outward(rq.depth - 1) = "done" THEN Done(rq.status)
    ELSE [rq EXCEPT !.depth = @ - 1]

\* A request arrives with its tenant headers
Receive(r, headers) ==
    /\ req[r].pc \in {"idle", "done"}
    /\ req' = [req EXCEPT ![r] = [IdleRequest EXCEPT !.pc = "dispatch",
                                                     !.headers = headers]]
    /\ UNCHANGED <<tenants, auth_key_to_tenant, now, ticks, current_tenant,
                   current_user, tenants_data>>
    /\ UNCHANGED <<call, user_roles>>

\* AuthorizationMiddleware.dispatch up to "await call_next(request)";
\* user_email is the request's X-User-Email header
AuthorizationMiddleware_dispatch(r, user_email) ==
    /\ req[r].pc = "dispatch"
    /\ user_middleware[req[r].depth + 1] = "AuthorizationMiddleware"
    /\ LET user == get_current_user_from_request(current_tenant, tenants_data, user_email)
       IN  /\ current_user' = user
           /\ req' = [req EXCEPT ![r].email = user_email,
                                 ![r].user_set = user,
                                 ![r].depth = @ + 1,
                                 ![r].pc = Inward(req[r].depth + 1)]
    /\ UNCHANGED <<tenants, auth_key_to_tenant, now, ticks, current_tenant, tenants_data>>
    /\ UNCHANGED <<call, user_roles>>

\* AuthorizationMiddleware.dispatch: the finally clause
AuthorizationMiddleware_finally(r) ==
    /\ req[r].pc = "finally"
    /\ user_middleware[req[r].depth] = "AuthorizationMiddleware"
    /\ current_user' = NoUser
    /\ req' = [req EXCEPT ![r] = Leave(@)]
    /\ UNCHANGED <<tenants, auth_key_to_tenant, now, ticks, current_tenant, tenants_data>>
    /\ UNCHANGED <<call, user_roles>>

\* TenantMiddleware.dispatch up to "await call_next(request)"
TenantMiddleware_dispatch(r) ==
    /\ req[r].pc = "dispatch"
    /\ user_middleware[req[r].depth + 1] = "TenantMiddleware"
    /\ LET tenant == _extract_tenant(tenants, auth_key_to_tenant, now, req[r].headers)
           code == TenantMiddleware_reject(tenants, tenant)
       IN  IF code # 0
           THEN /\ req' = [req EXCEPT ![r] = Reject(@, code)]
                /\ UNCHANGED current_tenant
           ELSE /\ current_tenant' = tenant
                /\ req' = [req EXCEPT ![r].tenant = tenant,
                                      ![r].depth = @ + 1,
                                      ![r].pc = Inward(req[r].depth + 1)]
    /\ UNCHANGED <<tenants, auth_key_to_tenant, now, ticks, current_user, tenants_data>>
    /\ UNCHANGED <<call, user_roles>>

\* a dispatch whose finally clause leaves the tenant slot as it is: the property
\* C4 does not hold of it
TenantMiddleware_finally_slot_kept(r) ==
    /\ req[r].pc = "finally"
    /\ user_middleware[req[r].depth] = "TenantMiddleware"
    /\ req' = [req EXCEPT ![r] = Leave(@)]
    /\ UNCHANGED <<tenants, auth_key_to_tenant, now, ticks, current_tenant, current_user,
                   tenants_data>>
    /\ UNCHANGED <<call, user_roles>>

\* TenantMiddleware.dispatch: the finally clause
TenantMiddleware_finally(r) ==
    /\ req[r].pc = "finally"
    /\ user_middleware[req[r].depth] = "TenantMiddleware"
    /\ current_tenant' = 0
    /\ req' = [req EXCEPT ![r] = Leave(@)]
    /\ UNCHANGED <<tenants, auth_key_to_tenant, now, ticks, current_user, tenants_data>>
    /\ UNCHANGED <<call, user_roles>>

\* The first statement of the route handler: tenant_context = get_current_tenant().
\* Every route but get_user_roles raises 403 when it reads None.  No handler
\* reads the tenant headers, which are dropped from the request here.
get_current_tenant(r, route) ==
    /\ req[r].pc = "handler"
    /\ req[r].step = 0
    /\ req' = [req EXCEPT ![r] =
                 IF current_tenant = 0 /\ route # "get_user_roles"
                 THEN Respond([@ EXCEPT !.route = route, !.step = 1],
                              HTTP_403_FORBIDDEN)
                 ELSE [@ EXCEPT !.route = route, !.step = 1, !.headers = NoHeaders,
                                !.tenant_context = current_tenant]]
    /\ UNCHANGED <<tenants, auth_key_to_tenant, now, ticks, current_tenant,
                   current_user, tenants_data>>
    /\ UNCHANGED <<call, user_roles>>

\* get_activities, after the tenant context is read: the activities of
\* tenants_data[tenant_id] that pass ensure_tenant_isolation are returned
get_activities(r) ==
    /\ req[r].pc = "handler"
    /\ req[r].step = 1
    /\ req[r].route = "get_activities"
    /\ LET tenant_id == req[r].tenant_context
       IN  req' = [req EXCEPT ![r] =
                     Respond([@ EXCEPT !.data_of =
                                IF tenant_id \in DOMAIN tenants_data
                                   /\ \E a \in DOMAIN tenants_data[tenant_id].activities :
                                        ensure_tenant_isolation(
                                            tenants_data[tenant_id].activities[a], tenant_id)
                                THEN tenant_id ELSE 0],
                             HTTP_200_OK)]
    /\ UNCHANGED <<tenants, auth_key_to_tenant, now, ticks, current_tenant,
                   current_user, tenants_data>>
    /\ UNCHANGED <<call, user_roles>>

\* user = get_current_user() in the routes that read the user
get_current_user(r) ==
    /\ req[r].pc = "handler"
    /\ req[r].step = 1
    /\ req[r].route # "get_activities"
    /\ req' = [req EXCEPT ![r].user = current_user, ![r].step = 2]
    /\ UNCHANGED <<tenants, auth_key_to_tenant, now, ticks, current_tenant,
                   current_user, tenants_data>>
    /\ UNCHANGED <<call, user_roles>>

\* get_user_roles, after both slots are read
get_user_roles(r) ==
    /\ req[r].pc = "handler"
    /\ req[r].step = 2
    /\ req[r].route = "get_user_roles"
    /\ req' = [req EXCEPT ![r] = Respond(@, HTTP_200_OK)]
    /\ UNCHANGED <<tenants, auth_key_to_tenant, now, ticks, current_tenant,
                   current_user, tenants_data>>
    /\ UNCHANGED <<call, user_roles>>

\* the status signup_for_activity ends with, from the authorization check on
SignupStatus(rq, authz, activity_name, email) ==
    LET tenant_id == rq.tenant_context
    IN  IF authz.raised THEN HTTP_500_INTERNAL_SERVER_ERROR
        ELSE IF ~authz.value THEN HTTP_403_FORBIDDEN
        ELSE IF tenant_id \notin DOMAIN tenants_data THEN HTTP_400_BAD_REQUEST
        ELSE IF activity_name \notin DOMAIN tenants_data[tenant_id].activities
             THEN HTTP_404_NOT_FOUND
        ELSE LET activity == tenants_data[tenant_id].activities[activity_name]
             IN  IF ~ensure_tenant_isolation(activity, tenant_id) THEN HTTP_403_FORBIDDEN
                 ELSE IF \E i \in 1..Len(activity.participants) :
                            activity.participants[i] = email
                      THEN HTTP_400_BAD_REQUEST
                 ELSE IF Len(activity.participants) >= activity.max_participants
                      THEN HTTP_400_BAD_REQUEST
                 ELSE HTTP_200_OK

\* signup_for_activity, after both slots are read
signup_for_activity(r, activity_name, email) ==
    /\ req[r].pc = "handler"
    /\ req[r].step = 2
    /\ req[r].route = "signup_for_activity"
    /\ LET authz == check_authorization(RoleAuthorization(<<"student", "teacher">>),
                                        [NoKwargs EXCEPT !.user = req[r].user], current_user)
           code == SignupStatus(req[r], authz, activity_name, email)
           tenant_id == req[r].tenant_context
       IN  IF code = HTTP_200_OK
           THEN /\ tenants_data' =
                     [tenants_data EXCEPT
                        ![tenant_id].activities[activity_name].participants =
                            Append(@, email)]
                /\ req' = [req EXCEPT ![r] = Respond([@ EXCEPT !.data_of = tenant_id], code)]
           ELSE /\ req' = [req EXCEPT ![r] = Respond(@, code)]
                /\ UNCHANGED tenants_data
    /\ UNCHANGED <<tenants, auth_key_to_tenant, now, ticks, current_tenant, current_user>>
    /\ UNCHANGED <<call, user_roles>>

\* generate_new_tenant_auth_key, after both slots are read
generate_new_tenant_auth_key(r, expiration_days) ==
    /\ req[r].pc = "handler"
    /\ req[r].step = 2
    /\ req[r].route = "generate_new_tenant_auth_key"
    /\ LET authz == check_authorization(RoleAuthorization(<<"admin">>),
                                        [NoKwargs EXCEPT !.user = req[r].user], current_user)
           tenant_id == req[r].tenant_context
       IN  IF authz.raised
           THEN /\ req' = [req EXCEPT ![r] = Respond(@, HTTP_500_INTERNAL_SERVER_ERROR)]
                /\ UNCHANGED tenants
           ELSE IF ~authz.value
           THEN /\ req' = [req EXCEPT ![r] = Respond(@, HTTP_403_FORBIDDEN)]
                /\ UNCHANGED tenants
           ELSE /\ Cardinality(AllKeys(tenants)) < MaxKeys
                /\ tenants' = [tenants EXCEPT ![tenant_id] =
                                 generate_new_auth_key(@, uuid4_key(tenants), now,
                                                       expiration_days)]
                /\ req' = [req EXCEPT ![r] = Respond(@, HTTP_200_OK)]
    /\ UNCHANGED <<auth_key_to_tenant, now, ticks, current_tenant, current_user,
                   tenants_data>>
    /\ UNCHANGED <<call, user_roles>>

\* one step of request r
RequestNext(r) ==
    \/ \E h \in TenantHeaders : Receive(r, h)
    \/ \E e \in UserEmails : AuthorizationMiddleware_dispatch(r, e)
    \/ TenantMiddleware_dispatch(r)
    \/ \E route \in Routes : get_current_tenant(r, route)
    \/ get_activities(r)
    \/ get_current_user(r)
    \/ get_user_roles(r)
    \/ \E a \in ActivityNames, e \in SignupEmails : signup_for_activity(r, a, e)
    \/ \E d \in ExpirationDays : generate_new_tenant_auth_key(r, d)
    \/ TenantMiddleware_finally(r)
    \/ AuthorizationMiddleware_finally(r)

----------------------------------------------------------------------------
(* Calls of the authorization functions *)

RoleLists == {<<>>, <<"admin">>, <<"teacher">>, <<"student", "teacher">>}

Authorizations ==
    {RoleAuthorization(R) : R \in RoleLists}
    \cup {LimitedAccessAuthorization(R) : R \in RoleLists}
    \cup {AuthorizationExclusion(R) : R \in RoleLists}
    \cup {OwnershipAuthorization}

Users == {NoUser, teacher_mergington, student_user, admin_user, guest_user}

KwargsValues ==
    [user : {Absent, teacher_mergington},
     resource_id : {Absent, NoResource, EmptyResource, "activity1", "activity2"}]

\* no call has been made
NoCall ==
    [op |-> "none", authorization |-> OwnershipAuthorization, user |-> NoUser,
     kwargs |-> NoKwargs, raised |-> FALSE, value |-> FALSE]

\* auth.set_current_user(user)
set_current_user(user) ==
    /\ current_user' = user
    /\ UNCHANGED <<tenants, auth_key_to_tenant, now, ticks, current_tenant, req,
                   tenants_data, call>>
    /\ UNCHANGED user_roles

\* authorization.authorize(user, **kwargs) is called
Authorize(authorization, user, kwargs) ==
    /\ LET outcome == authorize(authorization, user, kwargs)
       IN  call' = [op |-> "authorize", authorization |-> authorization, user |-> user,
                    kwargs |-> kwargs, raised |-> outcome.raised,
                    value |-> outcome.value]
    /\ UNCHANGED <<tenants, auth_key_to_tenant, now, ticks, current_tenant, current_user,
                   req, tenants_data>>
    /\ UNCHANGED user_roles

\* check_authorization(authorization, **kwargs) is called
CheckAuthorization(authorization, kwargs) ==
    /\ LET outcome == check_authorization(authorization, kwargs, current_user)
       IN  call' = [op |-> "check_authorization", authorization |-> authorization,
                    user |-> current_user, kwargs |-> kwargs,
                    raised |-> outcome.raised, value |-> outcome.value]
    /\ UNCHANGED <<tenants, auth_key_to_tenant, now, ticks, current_tenant, current_user,
                   req, tenants_data>>
    /\ UNCHANGED user_roles

AuthNext ==
    \/ \E u \in Users : set_current_user(u)
    \/ \E a \in Authorizations, u \in Users, k \in KwargsValues : Authorize(a, u, k)
    \/ \E a \in Authorizations, k \in KwargsValues : CheckAuthorization(a, k)

----------------------------------------------------------------------------
(* Calls of AuthorizationContext and of check_authorizations *)

ContextStrategies ==
    {RoleAuthorization(<<"teacher">>), OwnershipAuthorization,
     AuthorizationExclusion(<<"admin">>)}

\* the ordered lists of at most MaxStrategies strategies
StrategyLists == UNION {[1..n -> ContextStrategies] : n \in 0..MaxStrategies}

ContextUsers == {NoUser, teacher_mergington, student_user}

ContextKwargs ==
    [user : {Absent, teacher_mergington}, resource_id : {Absent, "activity1"}]

\* AuthorizationContext.check or check_any is called on a context holding these
\* strategies
Check(authorizations, require_all, user, kwargs) ==
    /\ LET outcome == IF require_all
                      THEN AuthorizationContext_check(authorizations, user, kwargs)
                      ELSE AuthorizationContext_check_any(authorizations, user, kwargs)
       IN  call' = [op |-> IF require_all THEN "check" ELSE "check_any",
                    authorizations |-> authorizations, user |-> user,
                    kwargs |-> kwargs, raised |-> outcome.raised,
                    value |-> outcome.value]
    /\ UNCHANGED <<tenants, auth_key_to_tenant, now, ticks, current_tenant, current_user,
                   req, tenants_data, user_roles>>

\* check_authorizations(authorizations, require_all, **kwargs) is called
CheckAuthorizations(authorizations, require_all, kwargs) ==
    /\ LET outcome == check_authorizations(authorizations, require_all, kwargs,
                                           current_user)
       IN  call' = [op |-> IF require_all THEN "check" ELSE "check_any",
                    authorizations |-> authorizations, user |-> current_user,
                    kwargs |-> kwargs, raised |-> outcome.raised,
                    value |-> outcome.value]
    /\ UNCHANGED <<tenants, auth_key_to_tenant, now, ticks, current_tenant, current_user,
                   req, tenants_data, user_roles>>

ContextNext ==
    \/ \E u \in ContextUsers : set_current_user(u)
    \/ \E S \in StrategyLists, all \in BOOLEAN, u \in ContextUsers, k \in ContextKwargs :
          Check(S, all, u, k)
    \/ \E S \in StrategyLists, all \in BOOLEAN, k \in ContextKwargs :
          CheckAuthorizations(S, all, k)

----------------------------------------------------------------------------
(* The roles of a user *)

\* the Role objects of app.py, by name and label
student_role == [name |-> "student", label |-> "Student"]
teacher_role == [name |-> "teacher", label |-> "Teacher"]
admin_role == [name |-> "admin", label |-> "Administrator"]

\* the roles add_role and remove_role are called with: those of app.py, and
\* Role objects built with the name of one of them and another label
Roles ==
    {student_role, teacher_role, admin_role,
     [name |-> "teacher", label |-> "Instructor"],
     [name |-> "admin", label |-> "Admin"]}

\* user.add_role(role)
AddRole(role) ==
    /\ user_roles' = add_role(user_roles, role)
    /\ UNCHANGED <<tenants, auth_key_to_tenant, now, ticks, current_tenant, current_user,
                   req, tenants_data, call>>

\* user.remove_role(role)
RemoveRole(role) ==
    /\ user_roles' = remove_role(user_roles, role)
    /\ UNCHANGED <<tenants, auth_key_to_tenant, now, ticks, current_tenant, current_user,
                   req, tenants_data, call>>

RoleNext ==
    \/ \E role \in Roles : AddRole(role)
    \/ \E role \in Roles : RemoveRole(role)

StoreNext ==
    \/ \E d \in DomainNames, m \in MetadataValues : CreateTenant(d, m)
    \/ \E i \in TenantIds, e \in ExpirationDays : GenerateNewAuthKey(i, e)
    \/ \E i \in TenantIds, k \in KeyStrings : RevokeAuthKey(i, k)
    \/ \E i \in TenantIds : DeactivateTenant(i)
    \/ \E i \in TenantIds : ReactivateTenant(i)
    \/ Tick

Init ==
    /\ tenants = InitialStore.tenants
    /\ auth_key_to_tenant = InitialStore.auth_key_to_tenant
    /\ now = 0
    /\ ticks = 0
    /\ current_tenant = 0
    /\ current_user = NoUser
    /\ req = [r \in Reqs |-> IdleRequest]
    /\ tenants_data = InitialTenantsData
    /\ call = NoCall
    /\ user_roles = <<>>

\* the store and the clock alone: no request is in flight
StoreSpec == Init /\ [][StoreNext]_vars

\* the application as app.py serves it: requests are handled concurrently, and
\* no route reaches the store but through the handlers
Next == \E r \in Reqs : RequestNext(r)

Spec == Init /\ [][Next]_vars

\* requests handled one after another, with the store administered in between
SeqNext == RequestNext(1) \/ StoreNext

SeqSpec == Init /\ [][SeqNext]_vars

\* the authorization functions alone, called with any strategy, user and
\* keyword arguments
AuthSpec == Init /\ [][AuthNext]_vars

\* AuthorizationContext and check_authorizations alone, called with any list of
\* strategies, user and keyword arguments
ContextSpec == Init /\ [][ContextNext]_vars

\* one user under add_role and remove_role
RoleSpec == Init /\ [][RoleNext]_vars

----------------------------------------------------------------------------
(* Request-scoped context: the current user and the current tenant *)

\* request r is between its arrival and the end of its outermost finally clause
InFlight(r) == req[r].pc \in {"dispatch", "handler", "finally"}

\* AuthorizationMiddleware.dispatch has assigned the user slot for request r
UserAssigned(r) ==
    InFlight(r)
    /\ \E d \in 1..req[r].depth : user_middleware[d] = "AuthorizationMiddleware"

\* the requests in flight have assigned pairwise distinct users
DistinctUsersAssigned ==
    \A p, q \in Reqs :
        (p # q /\ UserAssigned(p) /\ UserAssigned(q)) => req[p].user_set # req[q].user_set

\* the handler of request r has read the user slot into its local
UserRead(r) == req[r].pc = "handler" /\ req[r].step = 2

\* the handler of request r has read the tenant slot into its local
TenantRead(r) == req[r].pc = "handler" /\ req[r].step >= 1

\* C1: whatever the interleaving of concurrent requests that assign distinct
\* users, the user a handler reads with get_current_user() is the user that the
\* AuthorizationMiddleware assigned for its own request: never the user of
\* another request, and never None because another request cleared the slot.
C1_OwnUserReadBack ==
    \A r \in Reqs :
        (DistinctUsersAssigned /\ UserRead(r)) => req[r].user = req[r].user_set

\* C2: whatever the interleaving of concurrent requests resolved to different
\* tenants, the tenant context a handler reads with get_current_tenant() is the
\* tenant resolved for its own request, and the activity data the handler
\* reads or changes is that tenant's.
C2_OwnTenantContext ==
    \A r, q \in Reqs :
        (r # q /\ req[r].tenant # 0 /\ req[q].tenant # 0
              /\ req[r].tenant # req[q].tenant)
        => /\ TenantRead(r) => req[r].tenant_context = req[r].tenant
           /\ req[r].data_of \in {0, req[r].tenant}

\* TenantMiddleware.dispatch is among the dispatch calls request r is inside of
TenantEntered(r) ==
    InFlight(r) /\ \E d \in 1..req[r].depth : user_middleware[d] = "TenantMiddleware"

\* C3: tenant resolution runs, and sets the tenant slot, before user resolution
\* runs; so when the handler of a request executes that resolved tenant T and
\* carries the X-User-Email of a user registered under T, that user is the
\* current user.
C3_TenantBeforeUser ==
    \A r \in Reqs :
        /\ UserAssigned(r) => TenantEntered(r)
        /\ (req[r].pc = "handler" /\ req[r].tenant \in DOMAIN tenants_data
                /\ req[r].email \in tenants_data[req[r].tenant].users)
           => current_user = req[r].email

\* C4: requests being processed one after another, whenever no request is in
\* flight (one has finished, its handler having returned or raised, and the next
\* has not started) the tenant slot and the user slot are both None.
C4_SlotsClearedBetweenRequests ==
    (\A r \in Reqs : ~InFlight(r)) => (current_tenant = 0 /\ current_user = NoUser)

\* a request has finished with the handler having raised (the TypeError of
\* check_authorization), and one whose handler returned came before or after
C4_Witness ==
    /\ req[1].pc = "done"
    /\ req[1].status = HTTP_500_INTERNAL_SERVER_ERROR
    /\ current_tenant = 0
    /\ current_user = NoUser

----------------------------------------------------------------------------
(* Tenant resolution, stated from the three rules *)

Prefixes(host) == {SubSeq(host, 1, n) : n \in 0..Len(host)}

\* the host name of a Host header value: what stands before the port suffix
HostName(host) ==
    CHOOSE d \in Prefixes(host) :
        /\ \A i \in 1..Len(d) : d[i] # ":"
        /\ Len(d) = Len(host) \/ host[Len(d) + 1] = ":"

\* the value the domain rule goes by: Host, X-Tenant-Domain when there is no Host
DomainHeader(headers) ==
    IF headers.Host = <<>> THEN headers.X_Tenant_Domain ELSE headers.Host

\* what the rules yield for the headers in the present store, in priority order:
\* the key header, the Host/domain header, the tenant-id header (0: no tenant)
RuleYields(headers) ==
    << IF headers.X_Tenant_Key = 0 THEN 0
       ELSE get_tenant_by_auth_key(tenants, auth_key_to_tenant, now, headers.X_Tenant_Key),
       IF DomainHeader(headers) = <<>> THEN 0
       ELSE get_tenant_by_domain(tenants, HostName(DomainHeader(headers))),
       IF headers.X_Tenant_ID \in DOMAIN tenants THEN headers.X_Tenant_ID ELSE 0 >>

\* the yield of the first rule that yields a tenant, 0 when none does
FirstYield(yields) ==
    IF \A i \in 1..Len(yields) : yields[i] = 0 THEN 0
    ELSE yields[Min({i \in 1..Len(yields) : yields[i] # 0})]

\* this step is request r's TenantMiddleware.dispatch
TenantDispatchStep(r) ==
    /\ req[r].pc = "dispatch"
    /\ user_middleware[req[r].depth + 1] = "TenantMiddleware"
    /\ req'[r] # req[r]

\* C5: tenant resolution follows the fixed priority key header, Host/domain
\* header with the port suffix stripped, tenant-id header: the tenant resolved is
\* the one the first rule in that order yields, whatever the lower-priority
\* headers say, and no tenant is resolved iff no rule yields one.
C5_ResolutionPriority ==
    [][\A r \in Reqs :
          TenantDispatchStep(r) =>
             LET first == FirstYield(RuleYields(req[r].headers))
                 resolved == IF req'[r].status = HTTP_401_UNAUTHORIZED THEN 0
                             ELSE IF req'[r].status = HTTP_403_FORBIDDEN
                                  THEN first
                                  ELSE req'[r].tenant
             IN  /\ resolved = first
                 /\ (req'[r].status = HTTP_401_UNAUTHORIZED) <=> (first = 0)
                 /\ (req'[r].status = HTTP_403_FORBIDDEN)
                       => (first # 0 /\ ~tenants[first].active)
                 /\ req'[r].status = 0 => current_tenant' = first
      ]_vars

\* a request carried the valid key of tenant 1 and a Host with a port suffix
\* that names the active tenant 2, and was resolved to tenant 1: the key rule
\* came before the domain rule
C5_Witness ==
    \E r \in Reqs :
        /\ req[r].pc = "handler"
        /\ req[r].tenant = 1
        /\ current_tenant = 1
        /\ req[r].headers = [X_Tenant_Key |-> 1,
                             Host |-> <<"riverside.local", ":", "8000">>,
                             X_Tenant_Domain |-> <<>>,
                             X_Tenant_ID |-> 0]
        /\ get_tenant_by_domain(tenants, riverside_domain) = 2

\* the phase of a request in flight, as the tenant middleware sees it
Phase(rq) ==
    IF rq.pc \in {"idle", "done"} THEN "NONE"
    ELSE IF rq.pc = "dispatch" THEN "UNRESOLVED"
    ELSE IF rq.pc = "handler" /\ rq.step = 0 THEN "RESOLVED"
    ELSE IF rq.pc = "handler" THEN "HANDLER"
    ELSE IF rq.tenant = 0 THEN "REJECTED"
    ELSE IF \E d \in 1..rq.depth : user_middleware[d] = "TenantMiddleware"
         THEN "HANDLER"
    ELSE "CLEARED"

PhaseSteps ==
    {<<"NONE", "UNRESOLVED">>, <<"UNRESOLVED", "RESOLVED">>, <<"RESOLVED", "HANDLER">>,
     <<"HANDLER", "CLEARED">>, <<"CLEARED", "NONE">>,
     <<"UNRESOLVED", "REJECTED">>, <<"REJECTED", "NONE">>}

\* C6: every request goes UNRESOLVED -> RESOLVED -> handler -> CLEARED or
\* UNRESOLVED -> REJECTED; when no rule yields a tenant the request is rejected
\* with 401, its handler is never executed and the tenant slot is never set for
\* it.
C6_UnresolvedRejected ==
    [][\A r \in Reqs :
          /\ Phase(req'[r]) # Phase(req[r])
                => <<Phase(req[r]), Phase(req'[r])>> \in PhaseSteps
          /\ (TenantDispatchStep(r) /\ FirstYield(RuleYields(req[r].headers)) = 0)
                => /\ req'[r].status = HTTP_401_UNAUTHORIZED
                   /\ Phase(req'[r]) = "REJECTED"
                   /\ current_tenant' = current_tenant
          /\ Phase(req[r]) = "REJECTED"
                => /\ req[r].step = 0
                   /\ req[r].tenant = 0
                   /\ current_tenant' = current_tenant
      ]_vars

\* a request without any header that names a tenant has been rejected with 401
C6_Witness ==
    \E r \in Reqs :
        /\ Phase(req[r]) = "REJECTED"
        /\ req[r].status = HTTP_401_UNAUTHORIZED
        /\ req[r].headers = NoHeaders

\* C7: when resolution yields an inactive tenant (which only the tenant-id
\* header does: key and domain lookups never yield an inactive tenant) the
\* request is rejected with 403, not 401, and the handler never executes for a
\* tenant that resolution found inactive.
C7_InactiveForbidden ==
    [][\A r \in Reqs :
          /\ TenantDispatchStep(r) =>
               LET yields == RuleYields(req[r].headers)
                   first == FirstYield(yields)
               IN  /\ \A i \in 1..2 : yields[i] # 0 => tenants[yields[i]].active
                   /\ (first # 0 /\ ~tenants[first].active)
                        => /\ first = req[r].headers.X_Tenant_ID
                           /\ req'[r].status = HTTP_403_FORBIDDEN
                           /\ req'[r].status # HTTP_401_UNAUTHORIZED
                           /\ Phase(req'[r]) = "REJECTED"
                           /\ current_tenant' = current_tenant
          /\ (Phase(req[r]) = "UNRESOLVED" /\ Phase(req'[r]) = "RESOLVED")
                => tenants[req'[r].tenant].active
      ]_vars

\* a request naming the deactivated tenant 1 by X-Tenant-ID has been rejected
\* with 403
C7_Witness ==
    \E r \in Reqs :
        /\ Phase(req[r]) = "REJECTED"
        /\ req[r].status = HTTP_403_FORBIDDEN
        /\ req[r].headers.X_Tenant_ID = 1
        /\ ~tenants[1].active

----------------------------------------------------------------------------
(* The key index and the key lifecycle *)

\* the positions a key list can have
KeyPositions == 1..MaxKeys

\* the key string at position i of tenant T's key list
KeyAt(T, i) == tenants[T].auth_keys[i].key

\* position i of tenant T's key list holds a revoked key
Revoked(T, i) ==
    /\ T \in DOMAIN tenants
    /\ i \in 1..Len(tenants[T].auth_keys)
    /\ ~tenants[T].auth_keys[i].active

\* C8: once a key K of a tenant T is revoked it stays revoked, and
\* get_tenant_by_auth_key(K) returns None in the state the revocation leaves
\* and in every later state, also while T is active and holds another valid key.
C8_RevokedKeyNeverResolves ==
    [][\A T \in TenantIds, i \in KeyPositions :
          /\ Revoked(T, i) => (Revoked(T, i))' /\ (KeyAt(T, i))' = KeyAt(T, i)
          /\ (Revoked(T, i))'
                => (get_tenant_by_auth_key(tenants, auth_key_to_tenant, now,
                                           KeyAt(T, i)))' = 0
      ]_vars

\* tenant 1 is active, its first key is revoked and still in the index, and it
\* holds another key that is valid
C8_Witness ==
    /\ tenants[1].active
    /\ Revoked(1, 1)
    /\ KeyAt(1, 1) \in DOMAIN auth_key_to_tenant
    /\ auth_key_to_tenant[KeyAt(1, 1)] = 1
    /\ get_valid_auth_key(tenants[1], now) # 0
    /\ get_tenant_by_auth_key(tenants, auth_key_to_tenant, now, KeyAt(1, 1)) = 0

\* the headers of a request that carries nothing but this Host
OnlyHost(domain) == [NoHeaders EXCEPT !.Host = domain]

\* the headers of a request that carries nothing but this X-Tenant-Key
OnlyKey(key) == [NoHeaders EXCEPT !.X_Tenant_Key = key]

\* C9: for every tenant T of the store, created with domain D and initial key
\* K1: a request carrying only Host: D resolves T as long as T is active; a
\* request carrying only X-Tenant-Key: K1 resolves T while K1 is valid; and
\* once K1 is revoked a request carrying only X-Tenant-Key: K1 is rejected with
\* 401.
C9_EndToEnd ==
    [][\A r \in Reqs : TenantDispatchStep(r) =>
          \A T \in DOMAIN tenants :
             /\ (tenants[T].active /\ req[r].headers = OnlyHost(tenants[T].domain))
                   => (req'[r].status = 0 /\ req'[r].tenant = T /\ current_tenant' = T)
             /\ (is_valid(tenants[T].auth_keys[1], now)
                     /\ req[r].headers = OnlyKey(KeyAt(T, 1)))
                   => (req'[r].status = 0 /\ req'[r].tenant = T /\ current_tenant' = T)
             /\ (Revoked(T, 1) /\ req[r].headers = OnlyKey(KeyAt(T, 1)))
                   => (req'[r].status = HTTP_401_UNAUTHORIZED /\ req'[r].tenant = 0)
      ]_vars

\* C10: in every state of the store every currently valid key of every tenant
\* is present in auth_key_to_tenant and maps to that tenant's id.
C10_IndexConsistency ==
    \A T \in DOMAIN tenants :
        \A i \in ValidIndexes(tenants[T], now) :
            /\ KeyAt(T, i) \in DOMAIN auth_key_to_tenant
            /\ auth_key_to_tenant[KeyAt(T, i)] = T

----------------------------------------------------------------------------
(* Deactivation and reactivation *)

\* the store as one value, as the store operations take it
TheStore == [tenants |-> tenants, auth_key_to_tenant |-> auth_key_to_tenant]

\* C11: for every tenant with no valid key, inactive or still active with all
\* its keys revoked or expired, after reactivate the tenant is active and holds
\* exactly one valid key, which the call has newly minted.
C11_ReactivateMintsOneKey ==
    \A T \in DOMAIN tenants :
        ValidIndexes(tenants[T], now) = {}
        => LET after == reactivate_tenant(TheStore, now, T).tenants[T]
           IN  /\ after.active
               /\ Cardinality(ValidIndexes(after, now)) = 1
               /\ \A i \in ValidIndexes(after, now) :
                     after.auth_keys[i].key \notin AllKeys(tenants)

\* C12: immediately after deactivate, on a tenant with any number of keys in
\* any state of validity, the tenant is not active, no key of auth_keys is
\* valid, and get_valid_auth_key() is None.
C12_DeactivateInvalidatesAll ==
    \A T \in DOMAIN tenants :
        LET after == deactivate_tenant(tenants, T)[T]
        IN  /\ ~after.active
            /\ Len(after.auth_keys) = Len(tenants[T].auth_keys)
            /\ \A i \in 1..Len(after.auth_keys) : ~is_valid(after.auth_keys[i], now)
            /\ get_valid_auth_key(after, now) = 0

\* tenant 1 held two keys, one of them valid, and has been deactivated
C12_Witness ==
    /\ ~tenants[1].active
    /\ Len(tenants[1].auth_keys) >= 2
    /\ \A i \in 1..Len(tenants[1].auth_keys) :
          /\ ~tenants[1].auth_keys[i].active
          /\ now < tenants[1].auth_keys[i].expires_at
    /\ get_valid_auth_key(tenants[1], now) = 0

----------------------------------------------------------------------------
(* Key rotation *)

\* get_valid_auth_key() is the first key of the list, in insertion order, that
\* is valid, and None when no key is valid
ReturnsFirstValid(tenant, t) ==
    LET k == get_valid_auth_key(tenant, t)
    IN  IF \A i \in 1..Len(tenant.auth_keys) : ~is_valid(tenant.auth_keys[i], t)
        THEN k = 0
        ELSE \E i \in 1..Len(tenant.auth_keys) :
                /\ tenant.auth_keys[i].key = k
                /\ is_valid(tenant.auth_keys[i], t)
                /\ \A j \in 1..(i - 1) : ~is_valid(tenant.auth_keys[j], t)

\* tenant T's key list has grown by one key in this step
KeyAppended(T) ==
    /\ T \in DOMAIN tenants
    /\ Len(tenants'[T].auth_keys) = Len(tenants[T].auth_keys) + 1

\* the keys tenant T held are unchanged by this step; one that was valid is
\* still valid, and get_valid_auth_key() is the first valid key in insertion
\* order before and after
PriorKeysKept(T) ==
    /\ \A i \in 1..Len(tenants[T].auth_keys) :
          /\ tenants'[T].auth_keys[i] = tenants[T].auth_keys[i]
          /\ is_valid(tenants[T].auth_keys[i], now)
                => is_valid(tenants'[T].auth_keys[i], now')
    /\ ReturnsFirstValid(tenants[T], now)
    /\ ReturnsFirstValid(tenants'[T], now')

\* the key this step has appended to tenant T's list
NewKey(T) == tenants'[T].auth_keys[Len(tenants'[T].auth_keys)]

\* C13 as stated: generate_new_auth_key appends a new valid key and changes no
\* existing key; a prior key that was valid stays valid, and
\* get_valid_auth_key() is the first valid key in insertion order, or None.
C13_RotationAppendsValidKey ==
    [][\A T \in TenantIds :
          KeyAppended(T) =>
             /\ PriorKeysKept(T)
             /\ NewKey(T).key \notin AllKeys(tenants)
             /\ is_valid(NewKey(T), now')
      ]_vars

\* C13 amended: generate_new_auth_key appends a new active key created now,
\* which is valid iff its expiration lies after its creation (a key generated
\* with expiration_days = 0 is not valid), and changes no existing key; a prior
\* key that was valid stays valid, and get_valid_auth_key() is the first valid
\* key in insertion order, or None.
C13_RotationKeepsPriorKeys ==
    [][\A T \in TenantIds :
          KeyAppended(T) =>
             /\ PriorKeysKept(T)
             /\ NewKey(T).key \notin AllKeys(tenants)
             /\ NewKey(T).active
             /\ NewKey(T).created_at = now
             /\ is_valid(NewKey(T), now') <=> (NewKey(T).expires_at > NewKey(T).created_at)
      ]_vars

\* a second key has been generated for tenant 1: both keys are valid and
\* get_valid_auth_key() is the older one
C13_Witness ==
    /\ Len(tenants[1].auth_keys) = 2
    /\ \A i \in 1..2 : is_valid(tenants[1].auth_keys[i], now)
    /\ get_valid_auth_key(tenants[1], now) = tenants[1].auth_keys[1].key

----------------------------------------------------------------------------
(* Domains *)

\* C14: for every tenant T the store holds, created with domain D:
\* get_tenant_by_domain(D) returns T as long as T is active and None once T is
\* deactivated, while get_tenant(T.id) still returns T.
C14_DomainRoundTrip ==
    \A T \in DOMAIN tenants :
        /\ tenants[T].active => get_tenant_by_domain(tenants, tenants[T].domain) = T
        /\ ~tenants[T].active => get_tenant_by_domain(tenants, tenants[T].domain) = 0
        /\ get_tenant(tenants, T) = T

\* C15: in every state of the store no two tenants have the same domain.
C15_DomainUnique ==
    \A T, U \in DOMAIN tenants :
        T # U => tenants[T].domain # tenants[U].domain

----------------------------------------------------------------------------
(* The authorization strategies *)

\* the names in a list of role names
Names(roles) == {roles[i] : i \in 1..Len(roles)}

\* the last call was strategy.authorize(user, ...) with this class of strategy,
\* and no keyword argument named user
Authorized(kind) ==
    /\ call.op = "authorize"
    /\ call.authorization.kind = kind
    /\ call.kwargs.user = Absent

\* C16: check_authorization(strategy, **ctx) never raises and returns the
\* boolean strategy.authorize(current user, **ctx), for every strategy, for a
\* current user of None and for every context, a context with the key 'user',
\* as the route handlers pass it, included.
C16_CheckAuthorizationNeverRaises ==
    call.op = "check_authorization"
    => /\ ~call.raised
       /\ call.value \in BOOLEAN
       /\ call.value = authorize(call.authorization, call.user,
                                 [call.kwargs EXCEPT !.user = Absent]).value

\* C19: RoleAuthorization(R).authorize(U) is true iff U is not None and some
\* role of U has its name in R; it is false for None and false for every user
\* when R is empty.
C19_RoleAuthorizationAnyRole ==
    Authorized("role")
    => /\ ~call.raised
       /\ call.value <=> (call.user # NoUser
                          /\ Names(UserRoles(call.user))
                                \cap Names(call.authorization.roles) # {})
       /\ call.user = NoUser => ~call.value
       /\ call.authorization.roles = <<>> => ~call.value

\* a teacher has been authorized by RoleAuthorization(["student", "teacher"]),
\* holding one of the two roles
C19_Witness ==
    /\ Authorized("role")
    /\ call.authorization.roles = <<"student", "teacher">>
    /\ call.user = teacher_mergington
    /\ call.value

\* C20: AuthorizationExclusion(E).authorize(U) is true iff U is None or U holds
\* no role named in E; None is authorized for every E, a non-empty E included.
C20_ExclusionFailsOpen ==
    Authorized("exclusion")
    => /\ ~call.raised
       /\ call.value <=> (call.user = NoUser
                          \/ Names(UserRoles(call.user))
                                \cap Names(call.authorization.roles) = {})
       /\ call.user = NoUser => call.value

\* AuthorizationExclusion(["admin"]) has authorized None
C20_Witness ==
    /\ Authorized("exclusion")
    /\ call.authorization.roles = <<"admin">>
    /\ call.user = NoUser
    /\ call.value

----------------------------------------------------------------------------
(* Validity of a key over time *)

\* the keys of the store: tenant id and position in the tenant's list
StoredKeys == {<<T, i>> \in TenantIds \X KeyPositions :
                  T \in DOMAIN tenants /\ i <= Len(tenants[T].auth_keys)}

\* C17: a key is valid iff it is active and the time is strictly before
\* expires_at: from expires_at on, the instant expires_at included, it is not
\* valid, and a key created with a zero-day expiration is never valid.
C17_ValidStrictlyBeforeExpiry ==
    \A p \in StoredKeys :
        LET auth_key == tenants[p[1]].auth_keys[p[2]]
        IN  /\ is_valid(auth_key, now) <=> (auth_key.active /\ now < auth_key.expires_at)
            /\ now >= auth_key.expires_at => ~is_valid(auth_key, now)
            /\ auth_key.expires_at = auth_key.created_at => ~is_valid(auth_key, now)

\* the time is exactly the expires_at of an active key that was created with a
\* positive expiration, and the key is not valid
C17_Witness ==
    \E p \in StoredKeys :
        LET auth_key == tenants[p[1]].auth_keys[p[2]]
        IN  /\ auth_key.active
            /\ auth_key.expires_at > auth_key.created_at
            /\ now = auth_key.expires_at
            /\ ~is_valid(auth_key, now)

\* C18: revocation is one-way: a key whose active flag is false keeps it false
\* through every operation, and, time never going back, a key that is not
\* valid never becomes valid again.
C18_RevocationOneWay ==
    [][/\ now' >= now
       /\ \A p \in StoredKeys :
             LET before == tenants[p[1]].auth_keys[p[2]]
                 after == tenants'[p[1]].auth_keys[p[2]]
             IN  /\ after.key = before.key
                 /\ ~before.active => ~after.active
                 /\ ~is_valid(before, now) => ~is_valid(after, now')
      ]_vars

\* tenant 1 has been deactivated and reactivated by the store: it is active,
\* its first key is still revoked, and the key minted for it is valid and
\* indexed
C18_Witness ==
    /\ tenants[1].active
    /\ Len(tenants[1].auth_keys) = 2
    /\ ~tenants[1].auth_keys[1].active
    /\ is_valid(tenants[1].auth_keys[2], now)
    /\ tenants[1].auth_keys[2].key \in DOMAIN auth_key_to_tenant

----------------------------------------------------------------------------
(* Several strategies at once *)

\* what strategy i of the last call decides for the call's user and context,
\* evaluated whatever the other strategies decide
Decides(i) ==
    authorize(call.authorizations[i], call.user,
              [call.kwargs EXCEPT !.user = Absent]).value

\* C21: for every ordered list S of strategies, user and context,
\* AuthorizationContext.check is true iff every strategy of S authorizes (true
\* for the empty list) and check_any is true iff S is empty or some strategy of
\* S authorizes: the outcome of evaluating every strategy, without
\* short-circuit.
C21_CheckAllAndAny ==
    /\ call.op = "check"
          => /\ ~call.raised
             /\ call.value <=> (\A i \in 1..Len(call.authorizations) : Decides(i))
    /\ call.op = "check_any"
          => /\ ~call.raised
             /\ call.value <=> (call.authorizations = <<>>
                                \/ \E i \in 1..Len(call.authorizations) : Decides(i))

\* C22: OwnershipAuthorization().authorize(U, **ctx) is true iff U is not None,
\* ctx supplies a resource_id and U.owner_of holds it; without a resource_id,
\* with an empty one or with U = None the outcome is always false.
C22_OwnershipFailsClosed ==
    (call.op = "authorize" /\ call.authorization.kind = "ownership")
    => /\ ~call.raised
       /\ call.value <=> (/\ call.user # NoUser
                          /\ call.kwargs.resource_id \notin {Absent, NoResource, EmptyResource}
                          /\ call.kwargs.resource_id \in UserOwnerOf(call.user))
       /\ call.kwargs.resource_id \in {Absent, NoResource, EmptyResource} => ~call.value
       /\ call.user = NoUser => ~call.value

----------------------------------------------------------------------------
(* The roles of a user *)

\* C23: after any sequence of add_role and remove_role calls the roles list of
\* the user holds no two roles with the same name, a role being identified by
\* its name.
C23_RolesUniqueByName ==
    \A i, j \in 1..Len(user_roles) :
        i # j => user_roles[i].name # user_roles[j].name

----------------------------------------------------------------------------
(* Creation, growth and lookup of the store *)

\* the tenant looked up by key in the store of the current state
Lookup(k) == get_tenant_by_auth_key(tenants, auth_key_to_tenant, now, k)

\* C24: create_tenant yields an active tenant with an id distinct from every
\* existing tenant's id, the metadata as given (the empty dict when none is
\* given), and exactly one auth key; that key is valid, is indexed to the new
\* tenant's id, and get_tenant_by_auth_key on it returns the new tenant.
C24_CreateTenant ==
    \A domain \in DomainNames, metadata \in MetadataValues :
        LET store == create_tenant(TheStore, now, "School", domain, metadata)
            new == DOMAIN store.tenants \ DOMAIN tenants
        IN  /\ Cardinality(new) = 1
            /\ \A id \in new :
                  LET tenant == store.tenants[id]
                      key == tenant.auth_keys[1].key
                  IN  /\ tenant.id = id
                      /\ tenant.active
                      /\ tenant.domain = domain
                      /\ tenant.metadata = (IF metadata = NoMetadata THEN <<>> ELSE metadata)
                      /\ Len(tenant.auth_keys) = 1
                      /\ is_valid(tenant.auth_keys[1], now)
                      /\ key \notin AllKeys(tenants)
                      /\ key \in DOMAIN store.auth_key_to_tenant
                      /\ store.auth_key_to_tenant[key] = id
                      /\ get_tenant_by_auth_key(store.tenants, store.auth_key_to_tenant,
                                                now, key) = id

\* a third tenant has been created with the metadata country=USA: it is active,
\* holds one key, and the key resolves to it
C24_Witness ==
    /\ 3 \in DOMAIN tenants
    /\ tenants[3].active
    /\ tenants[3].metadata = <<"country=USA">>
    /\ Len(tenants[3].auth_keys) = 1
    /\ is_valid(tenants[3].auth_keys[1], now)
    /\ Lookup(tenants[3].auth_keys[1].key) = 3

\* C25: no operation removes a tenant from the store or a key from a tenant's
\* auth_keys list: in every step the set of tenant ids and each tenant's key
\* list only grow, and a key stays at its place in the list, revoked keys too.
C25_NothingRemoved ==
    [][/\ DOMAIN tenants \subseteq DOMAIN tenants'
       /\ \A T \in DOMAIN tenants :
             /\ Len(tenants'[T].auth_keys) >= Len(tenants[T].auth_keys)
             /\ \A i \in 1..Len(tenants[T].auth_keys) :
                   /\ tenants'[T].auth_keys[i].key = tenants[T].auth_keys[i].key
                   /\ ~tenants[T].auth_keys[i].active => ~tenants'[T].auth_keys[i].active
      ]_vars

\* tenant 1 is active and lists two keys, the one it was created with and one
\* generated later, and both have been revoked
C25_Witness ==
    /\ tenants[1].active
    /\ Len(tenants[1].auth_keys) = 2
    /\ tenants[1].auth_keys[1].key = InitialStore.tenants[1].auth_keys[1].key
    /\ \A i \in 1..2 : ~tenants[1].auth_keys[i].active

\* C26: after generate_new_auth_key on an active tenant T has yielded a key K2
\* and the older keys of T are revoked or expired, so that K2 is the first
\* valid key of T, get_tenant_by_auth_key(K2) returns T.
C26_RotatedKeyResolves ==
    \A T \in DOMAIN tenants :
        \A i \in 2..Len(tenants[T].auth_keys) :
            (/\ tenants[T].active
             /\ is_valid(tenants[T].auth_keys[i], now)
             /\ \A j \in 1..(i - 1) : ~is_valid(tenants[T].auth_keys[j], now))
            => Lookup(tenants[T].auth_keys[i].key) = T

\* C27: in every reachable state a tenant whose active flag is false has no
\* valid auth key.
C27_InactiveHasNoValidKey ==
    \A T \in DOMAIN tenants :
        ~tenants[T].active => ValidIndexes(tenants[T], now) = {}

\* C28: after any sequence of store and tenant operations,
\* get_tenant_by_auth_key never returns a tenant whose active flag is false.
C28_LookupNeverInactive ==
    \A k \in KeyStrings :
        Lookup(k) # 0 => tenants[Lookup(k)].active

\* tenant 1 is not active and holds a valid key, generated after it was
\* deactivated; no key resolves to tenant 1
C28_Witness ==
    /\ ~tenants[1].active
    /\ ValidIndexes(tenants[1], now) # {}
    /\ \A k \in KeyStrings : Lookup(k) # 1

\* C29: in every reachable state each entry key -> id of auth_key_to_tenant
\* names a tenant that is in the store and whose auth_keys contains the key,
\* and whenever get_tenant_by_auth_key(k) returns a tenant T, k is a currently
\* valid key of T.auth_keys.
C29_KeyResolvesToOwner ==
    /\ \A k \in DOMAIN auth_key_to_tenant :
          /\ auth_key_to_tenant[k] \in DOMAIN tenants
          /\ KeyIndexes(tenants[auth_key_to_tenant[k]], k) # {}
    /\ \A k \in KeyStrings :
          Lookup(k) # 0
          => /\ Lookup(k) \in DOMAIN tenants
             /\ \E i \in KeyIndexes(tenants[Lookup(k)], k) :
                   is_valid(tenants[Lookup(k)].auth_keys[i], now)
             /\ \A U \in DOMAIN tenants \ {Lookup(k)} : KeyIndexes(tenants[U], k) = {}

\* tenant 1 has been deactivated and reactivated: its first key is revoked and
\* still in the index, the key minted by the reactivation resolves to tenant 1,
\* and the key of tenant 2 resolves to tenant 2
C29_Witness ==
    /\ Len(tenants[1].auth_keys) = 2
    /\ ~tenants[1].auth_keys[1].active
    /\ tenants[1].auth_keys[1].key \in DOMAIN auth_key_to_tenant
    /\ Lookup(tenants[1].auth_keys[1].key) = 0
    /\ Lookup(tenants[1].auth_keys[2].key) = 1
    /\ Lookup(tenants[2].auth_keys[1].key) = 2

\* the tenants that differ between the two states of a step in which no tenant
\* is created
Changed == {T \in DOMAIN tenants : tenants'[T] # tenants[T]}

\* C30: deactivate_tenant(id), reactivate_tenant(id) and revoke_auth_key on a
\* tenant leave every other tenant unchanged; deactivate_tenant and
\* reactivate_tenant with an id not in the store return false and change
\* neither a tenant nor the key index; revoke_auth_key with a key the tenant
\* does not hold returns false and changes no key.
C30_Frame ==
    /\ [](\A id \in TenantIds :
             LET ts == deactivate_tenant(tenants, id)
                 store == reactivate_tenant(TheStore, now, id)
             IN  /\ DOMAIN ts = DOMAIN tenants
                 /\ DOMAIN store.tenants = DOMAIN tenants
                 /\ \A U \in DOMAIN tenants \ {id} :
                       /\ ts[U] = tenants[U]
                       /\ store.tenants[U] = tenants[U]
                 /\ id \notin DOMAIN tenants
                       => /\ ~deactivate_tenant_result(tenants, id)
                          /\ ~reactivate_tenant_result(tenants, id)
                          /\ ts = tenants
                          /\ store = TheStore)
    /\ [](\A T \in DOMAIN tenants, key \in KeyStrings :
             KeyIndexes(tenants[T], key) = {}
             => /\ ~revoke_auth_key_result(tenants[T], key)
                /\ revoke_auth_key(tenants[T], key) = tenants[T])
    /\ [][(DOMAIN tenants' = DOMAIN tenants /\ now' = now)
             => Cardinality(Changed) <= 1]_vars

\* tenant 1 has been deactivated, tenant 2 is active with its key valid and
\* resolving, and no tenant has the id 3
C30_Witness ==
    /\ DOMAIN tenants = {1, 2}
    /\ ~tenants[1].active
    /\ ValidIndexes(tenants[1], now) = {}
    /\ tenants[2].active
    /\ Lookup(tenants[2].auth_keys[1].key) = 2
    /\ auth_key_to_tenant = InitialStore.auth_key_to_tenant

====
